---------------------------- MODULE Spec2Model ----------------------------
(***************************************************************************)
(* A model of the resolution pipeline of the ARGUS crisis monitor:         *)
(*   - GeographicExtractor.geocode_location  (src/argus/geo_extractor.py)  *)
(*   - SimpleCrisisClassifier.classify_article                             *)
(*                                        (src/argus/simple_classifier.py) *)
(* Texts are TLA+ strings; lower(), strip() and the substring test `in`    *)
(* are computed character by character.  Coordinates are integers in units *)
(* of 1e-4 degree; confidences are integers in units of 1/ConfScale.       *)
(***************************************************************************)
EXTENDS Integers, Sequences, FiniteSets, TLC

VARIABLES
    geocoding_cache,   \* GeographicExtractor.geocoding_cache: key -> result or None
    mapbox_token,      \* GeographicExtractor.mapbox_token is set (truthy)
    primary_calls,     \* per cache key: calls made to self.geocoder.geocode
    secondary_calls,   \* per cache key: calls made to the Mapbox endpoint
    returned,          \* per cache key: what the latest completed call returned
    last,              \* the latest geocode_location call, as seen by its caller
    article,           \* the article handed to classify_article
    result,            \* the dictionary classify_article returned
    crisis_data,       \* the list handed to CrisisMapper.aggregate_crises
    aggregated_crises, \* what aggregate_crises returned
    fetched_articles,  \* the articles get_crisis_articles gives run_crisis_monitor
    run,               \* the outcome of run_crisis_monitor and what it computed
    callers            \* per thread: where its geocode_location call stands

vars == <<geocoding_cache, mapbox_token, primary_calls, secondary_calls,
          returned, last, article, result, crisis_data, aggregated_crises,
          fetched_articles, run, callers>>

geoVars == <<geocoding_cache, mapbox_token, primary_calls, secondary_calls,
             returned, last>>

clsVars == <<article, result>>

aggVars == <<crisis_data, aggregated_crises>>

runVars == <<fetched_articles, run>>

conVars == <<callers>>

----------------------------------------------------------------------------
(* Strings: str.lower(), str.strip(), the operator `in`.                   *)

UpperChars == "ABCDEFGHIJKLMNOPQRSTUVWXYZ"

LowerChars == "abcdefghijklmnopqrstuvwxyz"

Whitespace == {" ", "\t", "\n"}

CharAt(s, i) == SubSeq(s, i, i)

LowerMap ==
    [c \in {CharAt(UpperChars, i) : i \in 1..Len(UpperChars)} |->
        CharAt(LowerChars, CHOOSE i \in 1..Len(UpperChars) : CharAt(UpperChars, i) = c)]

LowerChar(c) == IF c \in DOMAIN LowerMap THEN LowerMap[c] ELSE c

RECURSIVE Lower(_)
Lower(s) ==
    IF Len(s) = 0 THEN ""
    ELSE LowerChar(CharAt(s, 1)) \o Lower(SubSeq(s, 2, Len(s)))

RECURSIVE LStrip(_)
LStrip(s) ==
    IF Len(s) > 0 /\ CharAt(s, 1) \in Whitespace
    THEN LStrip(SubSeq(s, 2, Len(s)))
    ELSE s

RECURSIVE RStrip(_)
RStrip(s) ==
    IF Len(s) > 0 /\ CharAt(s, Len(s)) \in Whitespace
    THEN RStrip(SubSeq(s, 1, Len(s) - 1))
    ELSE s

Strip(s) == LStrip(RStrip(s))

\* re.sub(r'\s+', ' ', s): every run of whitespace replaced by one space
RECURSIVE CollapseWhitespace(_)
CollapseWhitespace(s) ==
    IF Len(s) = 0 THEN ""
    ELSE IF CharAt(s, 1) \in Whitespace
    THEN IF Len(s) > 1 /\ CharAt(s, 2) \in Whitespace
         THEN CollapseWhitespace(SubSeq(s, 2, Len(s)))
         ELSE " " \o CollapseWhitespace(SubSeq(s, 2, Len(s)))
    ELSE CharAt(s, 1) \o CollapseWhitespace(SubSeq(s, 2, Len(s)))

\* Python's `term in text` for strings
In(term, text) ==
    \E i \in 1..(Len(text) - Len(term) + 1) :
        SubSeq(text, i, i + Len(term) - 1) = term

----------------------------------------------------------------------------
(* GeographicExtractor.geocode_location                                    *)

\* Python's None as a geocoding result
None == [found |-> FALSE]

known_crisis_zones ==
    [key \in {"gaza", "gaza strip", "west bank", "palestine", "syria", "yemen",
              "afghanistan", "ukraine", "sudan", "south sudan", "somalia"} |->
        CASE key = "gaza"        -> [lat |-> 313547, lon |-> 343088, name |-> "Gaza Strip, Palestine"]
          [] key = "gaza strip"  -> [lat |-> 313547, lon |-> 343088, name |-> "Gaza Strip, Palestine"]
          [] key = "west bank"   -> [lat |-> 319522, lon |-> 352332, name |-> "West Bank, Palestine"]
          [] key = "palestine"   -> [lat |-> 319522, lon |-> 352332, name |-> "Palestine"]
          [] key = "syria"       -> [lat |-> 335138, lon |-> 362765, name |-> "Syria"]
          [] key = "yemen"       -> [lat |-> 155527, lon |-> 485164, name |-> "Yemen"]
          [] key = "afghanistan" -> [lat |-> 339391, lon |-> 677100, name |-> "Afghanistan"]
          [] key = "ukraine"     -> [lat |-> 504501, lon |-> 305234, name |-> "Ukraine"]
          [] key = "sudan"       -> [lat |-> 155007, lon |-> 325599, name |-> "Sudan"]
          [] key = "south sudan" -> [lat |-> 68770,  lon |-> 313070, name |-> "South Sudan"]
          [] key = "somalia"     -> [lat |-> 51521,  lon |-> 461996, name |-> "Somalia"]]

\* cache_key = location_text.lower().strip()
CacheKey(location_text) == Strip(Lower(location_text))

\* location_lower = location_text.lower().strip()  (line 204)
LocationLower_NoStrip(location_text) == Lower(location_text)

LocationLower(location_text) == Strip(Lower(location_text))

\* The candidate texts handed to geocode_location
Texts == {"Gaza", " gaza", "West  Bank", "Paris", "PARIS "}

Keys == {CacheKey(t) : t \in Texts}

\* What a provider can answer with: the first match it ranks for the query
Places == {[address |-> "Paris, Ile-de-France, France", latitude |-> 488566, longitude |-> 23522],
           [address |-> "Paris, Lamar County, Texas",   latitude |-> 336609, longitude |-> -955555]}

MapboxPlaces == {[address |-> "Paris, France", latitude |-> 488534, longitude |-> 23488]}

\* Outcomes of self.geocoder.geocode(location_text)
PrimaryOutcomes ==
    {[kind |-> "match", place |-> p] : p \in Places}
    \cup {[kind |-> k] : k \in {"no_match", "GeocoderTimedOut", "Exception"}}

\* Outcomes of requests.get(...) and of the reading of its response
\* (a response that is not ok, has no features or has a malformed center
\* all leave the function in the same way: "no_features" stands for them)
SecondaryOutcomes ==
    {[kind |-> "match", place |-> p] : p \in MapboxPlaces}
    \cup {[kind |-> k] : k \in {"no_features", "Exception"}}

NotCalled == [kind |-> "not_called"]

IsError(outcome) ==
    outcome.kind \in {"GeocoderTimedOut", "GeocoderServiceError", "Exception"}

\* except (GeocoderTimedOut, GeocoderServiceError) ... except Exception ...
PrimaryHandled_OnlyGeopy(outcome) ==
    outcome.kind \in {"GeocoderTimedOut", "GeocoderServiceError"}

PrimaryHandled(outcome) ==
    outcome.kind \in {"GeocoderTimedOut", "GeocoderServiceError", "Exception"}

\* except Exception around the Mapbox request
SecondaryHandled(outcome) == outcome.kind = "Exception"

\* the outer `except Exception` of geocode_location
OuterHandled(outcome) == IsError(outcome)

OverrideResult(location_text, zone) ==
    [found |-> TRUE, query |-> location_text, found_name |-> zone.name,
     latitude |-> zone.lat, longitude |-> zone.lon, raw_data |-> "known_crisis_zone"]

PrimaryResult(location_text, place) ==
    [found |-> TRUE, query |-> location_text, found_name |-> place.address,
     latitude |-> place.latitude, longitude |-> place.longitude, raw_data |-> "nominatim"]

SecondaryResult(location_text, place) ==
    [found |-> TRUE, query |-> location_text, found_name |-> place.address,
     latitude |-> place.latitude, longitude |-> place.longitude, raw_data |-> "mapbox"]

\* d[k] = v on a Python dict
Put(d, k, v) == [x \in (DOMAIN d) \cup {k} |-> IF x = k THEN v ELSE d[x]]

\* self.geocoding_cache[cache_key] = None   (line 274)
CacheNegative_Skip(cache, cache_key) == cache

CacheNegative(cache, cache_key) == Put(cache, cache_key, None)

\* if cache_key in self.geocoding_cache   (line 185)
CacheHit_Never(cache, cache_key) == FALSE

CacheHit(cache, cache_key) == cache_key \in DOMAIN cache

\* if location_lower in known_crisis_zones   (line 205)
IsKnownCrisisZone_Never(location_lower) == FALSE

IsKnownCrisisZone(location_lower) == location_lower \in DOMAIN known_crisis_zones

\* self.geocoding_cache[cache_key] = result, for the result built from the
\* override table (line 214)
CacheOverride_Skip(cache, cache_key, zone_result) == cache

CacheOverride(cache, cache_key, zone_result) == Put(cache, cache_key, zone_result)

\* `if location:` after the primary provider was asked (line 231)
PrimaryMatched_Never(outcome) == FALSE

PrimaryMatched(outcome) == outcome.kind = "match"

\* One run of geocode_location(location_text) on the cache `cache`, when the
\* primary provider would answer p and the secondary provider would answer s.
\* The value says what the call returned, what it left in the cache and
\* which providers it contacted.
Resolve(cache, token, location_text, p, s) ==
    LET cache_key == CacheKey(location_text)
        location_lower == LocationLower(location_text)
        \* lines 243-275, after the primary provider gave no location
        fallback ==
            IF token /\ s.kind = "match"
            THEN [result |-> SecondaryResult(location_text, s.place),
                  cache |-> Put(cache, cache_key, SecondaryResult(location_text, s.place)),
                  tier |-> "secondary_provider", primary |-> p, secondary |-> s,
                  raised |-> FALSE]
            ELSE IF token /\ IsError(s) /\ ~SecondaryHandled(s)
            THEN [result |-> None, cache |-> cache, tier |-> "outer_except",
                  primary |-> p, secondary |-> s, raised |-> ~OuterHandled(s)]
            ELSE [result |-> None, cache |-> CacheNegative(cache, cache_key),
                  tier |-> "failure", primary |-> p,
                  secondary |-> IF token THEN s ELSE NotCalled, raised |-> FALSE]
    IN  IF CacheHit(cache, cache_key)
        THEN [result |-> cache[cache_key], cache |-> cache, tier |-> "cache",
              primary |-> NotCalled, secondary |-> NotCalled, raised |-> FALSE]
        ELSE IF IsKnownCrisisZone(location_lower)
        THEN [result |-> OverrideResult(location_text, known_crisis_zones[location_lower]),
              cache |-> CacheOverride(cache, cache_key,
                            OverrideResult(location_text, known_crisis_zones[location_lower])),
              tier |-> "override", primary |-> NotCalled, secondary |-> NotCalled,
              raised |-> FALSE]
        ELSE IF IsError(p) /\ ~PrimaryHandled(p)
        THEN [result |-> None, cache |-> cache, tier |-> "outer_except",
              primary |-> p, secondary |-> NotCalled, raised |-> ~OuterHandled(p)]
        ELSE IF PrimaryMatched(p)
        THEN [result |-> PrimaryResult(location_text, p.place),
              cache |-> Put(cache, cache_key, PrimaryResult(location_text, p.place)),
              tier |-> "primary_provider", primary |-> p, secondary |-> NotCalled,
              raised |-> FALSE]
        ELSE fallback

\* No geocode_location call has been made / no earlier call for this key
NoCall == [text |-> "", key |-> "", tier |-> "none"]

NoEarlier == [found |-> FALSE, earlier |-> FALSE]

MaxProviderCalls == 3

\* geocode_location(location_text), with the providers' answers p and s
Geocode(location_text, p, s) ==
    LET cache_key == CacheKey(location_text)
        r == Resolve(geocoding_cache, mapbox_token, location_text, p, s)
    IN  /\ primary_calls[cache_key] < MaxProviderCalls
        /\ secondary_calls[cache_key] < MaxProviderCalls
        /\ geocoding_cache' = r.cache
        /\ primary_calls' = [primary_calls EXCEPT ![cache_key] =
                                @ + (IF r.primary = NotCalled THEN 0 ELSE 1)]
        /\ secondary_calls' = [secondary_calls EXCEPT ![cache_key] =
                                @ + (IF r.secondary = NotCalled THEN 0 ELSE 1)]
        /\ returned' = IF r.raised THEN returned ELSE Put(returned, cache_key, r.result)
        /\ last' = [text |-> location_text, key |-> cache_key, tier |-> r.tier,
                    result |-> r.result, raised |-> r.raised,
                    primary |-> r.primary, secondary |-> r.secondary,
                    offered_primary |-> p,
                    cache_hit |-> cache_key \in DOMAIN geocoding_cache,
                    earlier |-> IF cache_key \in DOMAIN returned
                                THEN returned[cache_key] ELSE NoEarlier]
        /\ UNCHANGED <<mapbox_token, article, result, aggVars, runVars, conVars>>

NoArticle == [title |-> "", content |-> "", source_category |-> "Mixed", priority |-> "medium"]

NoResult == [classification_method |-> "none"]

----------------------------------------------------------------------------
(* SimpleCrisisClassifier.classify_article                                 *)

\* self.category_keywords, in insertion order
category_keywords == <<
    [category |-> "Natural Disasters",
     keywords |-> <<"earthquake", "quake", "seismic", "tsunami", "flood", "flooding",
                   "hurricane", "typhoon", "cyclone", "wildfire", "fire", "blaze",
                   "volcano", "volcanic", "eruption", "landslide", "mudslide",
                   "avalanche", "drought", "storm", "tornado", "heatwave",
                   "cold snap">>],
    [category |-> "Political Conflicts",
     keywords |-> <<"war", "conflict", "fighting", "battle", "combat", "military",
                   "troops", "invasion", "occupation", "coup", "regime", "civil war",
                   "insurgency", "rebel", "armed conflict", "airstrike", "bombing",
                   "missile", "artillery", "ceasefire", "peace talks">>],
    [category |-> "Human Rights Violations",
     keywords |-> <<"genocide", "ethnic cleansing", "persecution", "torture",
                   "extrajudicial", "disappearance", "arbitrary detention",
                   "mass detention", "concentration camp", "forced labor", "slavery",
                   "human trafficking", "apartheid", "discrimination", "oppression",
                   "atrocities", "war crimes", "crimes against humanity", "crackdown",
                   "repression", "authoritarian">>],
    [category |-> "Humanitarian Crises",
     keywords |-> <<"refugee", "displaced", "internally displaced", "idp",
                   "humanitarian crisis", "famine", "starvation", "malnutrition",
                   "hunger crisis", "food insecurity", "aid", "relief",
                   "humanitarian aid", "emergency response", "evacuation", "shelter",
                   "asylum", "migration crisis">>],
    [category |-> "Health Emergencies",
     keywords |-> <<"outbreak", "epidemic", "pandemic", "disease", "virus",
                   "infection", "contagious", "cholera", "ebola", "measles",
                   "malaria", "tuberculosis", "polio", "covid", "coronavirus",
                   "health crisis", "medical emergency", "hospital",
                   "healthcare collapse">>],
    [category |-> "Economic Crises",
     keywords |-> <<"economic crisis", "recession", "depression", "collapse",
                   "inflation", "hyperinflation", "unemployment", "poverty",
                   "financial crisis", "debt crisis", "bankruptcy",
                   "economic collapse", "market crash", "currency">>],
    [category |-> "Environmental Issues",
     keywords |-> <<"climate crisis", "global warming", "climate change", "pollution",
                   "deforestation", "biodiversity", "extinction",
                   "environmental disaster", "toxic", "chemical spill", "oil spill",
                   "contamination">>] >>

\* self.crisis_zone_mapping, in insertion order
crisis_zone_mapping == <<
    [zone |-> "uyghur", category |-> "Human Rights Violations"],
    [zone |-> "xinjiang", category |-> "Human Rights Violations"],
    [zone |-> "uighur", category |-> "Human Rights Violations"],
    [zone |-> "el salvador", category |-> "Human Rights Violations"],
    [zone |-> "tigray", category |-> "Humanitarian Crises"],
    [zone |-> "yemen", category |-> "Humanitarian Crises"],
    [zone |-> "rohingya", category |-> "Human Rights Violations"],
    [zone |-> "myanmar", category |-> "Human Rights Violations"],
    [zone |-> "darfur", category |-> "Human Rights Violations"],
    [zone |-> "nagorno-karabakh", category |-> "Political Conflicts"],
    [zone |-> "west papua", category |-> "Human Rights Violations"],
    [zone |-> "gaza", category |-> "Political Conflicts"],
    [zone |-> "palestine", category |-> "Political Conflicts"],
    [zone |-> "ukraine", category |-> "Political Conflicts"],
    [zone |-> "syria", category |-> "Political Conflicts"],
    [zone |-> "afghanistan", category |-> "Humanitarian Crises"],
    [zone |-> "somalia", category |-> "Humanitarian Crises"],
    [zone |-> "sudan", category |-> "Humanitarian Crises"],
    [zone |-> "haiti", category |-> "Humanitarian Crises"] >>

exclusions == {
    "singer", "musician", "artist", "band", "album", "concert", "tour",
    "celebrity", "actor", "actress", "movie", "film", "hollywood",
    "sports", "game", "match", "player", "team", "championship",
    "fashion", "runway", "designer", "cancels tour", "cancels show",
    "postpones tour", "book tour", "music tour", "concert tour",
    "opinion", "op-ed", "editorial", "analysis", "commentary",
    "column", "live blog", "live updates", "explainer", "timeline",
    "q&a", "newsletter", "edition", "manifesto", "humanifesto",
    "webinar", "podcast", "event announcement", "upcoming event",
    "publication launch", "new report available",
    "press release about report"}

\* the terms of the title test of line 135
publication_markers == {
    "edition", "newsletter", "manifesto", "podcast", "webinar",
    "opinion", "op-ed", "analysis", "live blog", "live updates",
    "explainer", "timeline", "q&a"}

crisis_impact_terms == {"killed", "died", "deaths", "injured", "attack", "bombing", "war"}

\* Confidences are counted in units of 1/ConfScale, a common multiple of the
\* keyword-list lengths and of 20, so that hits/len, 0.25, 0.7, 0.85, 0.9
\* and 0.95 are all whole numbers of units.
ConfScale == 550620

Ratio(num, den) == (num * ConfScale) \div den

\* 'is_crisis': category != 'Unknown' and confidence >= 0.25
CrisisThreshold == Ratio(25, 100)

IsCrisis_Threshold30(category, confidence) ==
    category # "Unknown" /\ confidence >= Ratio(30, 100)

IsCrisis(category, confidence) ==
    category # "Unknown" /\ confidence >= CrisisThreshold

_create_result(art, category, confidence, method) ==
    [article |-> art,
     predicted_category |-> category,
     confidence |-> confidence,
     is_crisis |-> IsCrisis(category, confidence),
     classification_method |-> method,
     all_scores |-> [c \in {category} |-> confidence]]

\* text = f"{title} {content}".lower()
TextOf(art) == Lower(art.title \o " " \o art.content)

\* title = article.get('title', '').lower()
TitleOf_Raw(art) == art.title

TitleOf(art) == Lower(art.title)

AnyIn(terms, text) == \E term \in terms : In(term, text)

\* score = sum(1 for keyword in keywords if keyword in text)
MatchCount(i, text) ==
    Cardinality({k \in 1..Len(category_keywords[i].keywords) :
                    In(category_keywords[i].keywords[k], text)})

\* the category the HRV gate answers with (line 172)
HrvGateCategory_Top(top_category) == top_category

HrvGateCategory(top_category) == "Unknown"

\* confidence = min(category_scores[top_category] * 2, 0.95)  (line 167)
ScaledConfidence_Uncapped(score) == score * 2

ScaledConfidence(score) ==
    IF score * 2 < Ratio(95, 100) THEN score * 2 ELSE Ratio(95, 100)

\* Require minimum keyword density: if confidence >= 0.25  (line 175)
MeetsDensityFloor_Any(confidence) == TRUE

MeetsDensityFloor(confidence) == confidence >= Ratio(25, 100)

\* Step 3 and step 4 of classify_article: keyword matching, then the default
KeywordStage(art, text) ==
    LET n == Len(category_keywords)
        category_match_counts == [i \in 1..n |-> MatchCount(i, text)]
        \* category_scores[category] = score / len(keywords), for score > 0
        scored == {i \in 1..n : category_match_counts[i] > 0}
        score(i) == Ratio(category_match_counts[i], Len(category_keywords[i].keywords))
        \* max(category_scores, key=category_scores.get): the first maximum
        top == CHOOSE i \in scored :
                    /\ \A j \in scored : score(j) <= score(i)
                    /\ \A j \in scored : j < i => score(j) < score(i)
        top_category == category_keywords[top].category
        confidence == ScaledConfidence(score(top))
        match_count == category_match_counts[top]
    IN  IF scored = {}
        THEN _create_result(art, "Unknown", 0, "no_match")
        ELSE IF top_category = "Human Rights Violations" /\ match_count < 2
        THEN _create_result(art, HrvGateCategory(top_category), 0, "insufficient_hrv_evidence")
        ELSE IF MeetsDensityFloor(confidence)
        THEN _create_result(art, top_category, confidence, "keyword_match")
        ELSE _create_result(art, "Unknown", 0, "no_match")

\* Step 2: for zone, category in self.crisis_zone_mapping.items()
ZonesIn(text) == {i \in 1..Len(crisis_zone_mapping) : In(crisis_zone_mapping[i].zone, text)}

\* the first zone of the table that is in the text: the loop returns there
FirstZone_Last(text) == CHOOSE i \in ZonesIn(text) : \A j \in ZonesIn(text) : i >= j

FirstZone(text) == CHOOSE i \in ZonesIn(text) : \A j \in ZonesIn(text) : i <= j

\* confidence = 0.9 if priority == 'high' else 0.7  (line 147)
SourceTrustConfidence_Flat(priority) == Ratio(7, 10)

SourceTrustConfidence(priority) ==
    IF priority = "high" THEN Ratio(9, 10) ELSE Ratio(7, 10)

\* Step 2 is reached before any keyword is counted: `if zone in text` for
\* some zone of the table (lines 151-152)
ZoneApplies_NoKeywords(text) ==
    /\ ZonesIn(text) # {}
    /\ \A i \in 1..Len(category_keywords) : MatchCount(i, text) = 0

ZoneApplies(text) == ZonesIn(text) # {}

classify_article(art) ==
    LET text == TextOf(art)
        title == TitleOf(art)
        source_category == art.source_category
        priority == art.priority
    IN  IF AnyIn(publication_markers, title)
        THEN _create_result(art, "Unknown", 0, "excluded_publication")
        ELSE IF AnyIn(exclusions, text) /\ ~AnyIn(crisis_impact_terms, text)
        THEN _create_result(art, "Unknown", 0, "excluded_non_crisis")
        ELSE IF source_category # "Mixed"
        THEN _create_result(art, source_category, SourceTrustConfidence(priority),
                            "source_trust")
        ELSE IF ZoneApplies(text)
        THEN _create_result(art, crisis_zone_mapping[FirstZone(text)].category,
                            Ratio(85, 100), "crisis_zone")
        ELSE KeywordStage(art, text)

\* The articles handed to classify_article: a title, a content of up to
\* MaxWords words of the vocabulary, the feed's category and priority.
MaxWords == 3

Titles == {"Daily Report", "Torture Report", "Weekly News Roundup - Edition 12"}

Vocabulary == {"torture", "genocide", "war crimes", "recession", "inflation",
               "yemen", "gaza", "concert", "killed", "evacuation"}

RECURSIVE JoinWords(_)
JoinWords(ws) ==
    IF Len(ws) = 0 THEN ""
    ELSE IF Len(ws) = 1 THEN ws[1]
    ELSE ws[1] \o " " \o JoinWords(Tail(ws))

Contents == {JoinWords(ws) : ws \in UNION {[1..n -> Vocabulary] : n \in 0..MaxWords}}

SourceCategories == {"Mixed", "Humanitarian Crises", "Sports"}

Priorities == {"high", "medium"}

\* A headline with seven keywords of Economic Crises (half of the list), over
\* a content of at most one word
EconomyHeadline == "Hyperinflation and economic collapse: poverty, unemployment, currency"

\* A headline that names a country whose name contains a zone of the table
SouthSudanHeadline == "South Sudan Report"

HeadlineContents == {JoinWords(ws) : ws \in UNION {[1..n -> Vocabulary] : n \in 0..1}}

Articles ==
    [title : Titles, content : Contents,
     source_category : SourceCategories, priority : Priorities]
    \cup [title : {EconomyHeadline, SouthSudanHeadline}, content : HeadlineContents,
          source_category : SourceCategories, priority : Priorities]

----------------------------------------------------------------------------
(* CrisisMapper.aggregate_crises (src/argus/mapper.py)                     *)

\* Coordinates are counted in 1/CoordScale of a degree
CoordScale == 10000

\* Python's round() of the number n/d: the nearest integer, a tie going to
\* the even neighbour
RoundHalfEven(n, d) ==
    LET q == n \div d
        r == n % d
    IN  IF 2 * r < d THEN q
        ELSE IF 2 * r > d THEN q + 1
        ELSE IF q % 2 = 0 THEN q ELSE q + 1

\* lat_rounded = round(lat * 2) / 2, counted in half degrees
RoundToHalfDegree_Whole(c) == 2 * RoundHalfEven(c, CoordScale)

RoundToHalfDegree(c) == RoundHalfEven(2 * c, CoordScale)

\* if loc.get('geocoded') and 'latitude' in loc and 'longitude' in loc
IsGeocoded(loc) ==
    /\ loc.geocoded
    /\ "latitude" \in DOMAIN loc
    /\ "longitude" \in DOMAIN loc

\* for loc in locations: if ...: ...; break  -- the position of the location
\* the loop stops at, 0 when it runs to the end
FirstGeocoded_Last(locations) ==
    IF \E i \in 1..Len(locations) : IsGeocoded(locations[i])
    THEN CHOOSE i \in 1..Len(locations) :
            /\ IsGeocoded(locations[i])
            /\ \A j \in (i+1)..Len(locations) : ~IsGeocoded(locations[j])
    ELSE 0

FirstGeocoded(locations) ==
    IF \E i \in 1..Len(locations) : IsGeocoded(locations[i])
    THEN CHOOSE i \in 1..Len(locations) :
            /\ IsGeocoded(locations[i])
            /\ \A j \in 1..(i-1) : ~IsGeocoded(locations[j])
    ELSE 0

\* key = (lat_rounded, lon_rounded, category)
GroupKey_NoCategory(loc, category) ==
    <<RoundToHalfDegree(loc.latitude), RoundToHalfDegree(loc.longitude), "Other">>

GroupKey(loc, category) ==
    <<RoundToHalfDegree(loc.latitude), RoundToHalfDegree(loc.longitude), category>>

\* loc.get('found_name', loc.get('text', 'Unknown Location'))
LocationName(loc) ==
    IF "found_name" \in DOMAIN loc THEN loc.found_name
    ELSE IF "text" \in DOMAIN loc THEN loc.text
    ELSE "Unknown Location"

\* The entry appended to crisis_groups[key] for the i-th item of crisis_data;
\* crisis_item is the reference to that item
GroupEntry(data, i, loc) ==
    [article |-> data[i].article,
     crisis_item |-> i,
     exact_lat |-> loc.latitude,
     exact_lon |-> loc.longitude,
     location_name |-> LocationName(loc)]

\* crisis_groups[key].append(entry) on a defaultdict(list), whose keys keep
\* the order of their first insertion
AppendToGroup(groups, key, entry) ==
    IF \E g \in 1..Len(groups) : groups[g].key = key
    THEN [g \in 1..Len(groups) |->
            IF groups[g].key = key
            THEN [groups[g] EXCEPT !.articles = Append(@, entry)]
            ELSE groups[g]]
    ELSE Append(groups, [key |-> key, articles |-> <<entry>>])

\* The first loop of aggregate_crises, from the i-th item on (lines 86-112)
RECURSIVE GroupFrom(_, _, _)
GroupFrom(data, i, groups) ==
    IF i > Len(data) THEN groups
    ELSE LET locations == data[i].article.locations
             n == FirstGeocoded(locations)
         IN  IF n = 0
             THEN GroupFrom(data, i + 1, groups)
             ELSE GroupFrom(data, i + 1,
                    AppendToGroup(groups,
                                  GroupKey(locations[n], data[i].predicted_category),
                                  GroupEntry(data, i, locations[n])))

RECURSIVE SumSeq(_)
SumSeq(xs) == IF Len(xs) = 0 THEN 0 ELSE Head(xs) + SumSeq(Tail(xs))

\* sum(...) / len(articles): the quotient, kept as the exact fraction
Mean_Key(xs, key_coordinate) == [num |-> key_coordinate * CoordScale, den |-> 2]

Mean(xs, key_coordinate) == [num |-> SumSeq(xs), den |-> Len(xs)]

\* location_names.count(name)
CountOf(name, names) == Cardinality({i \in 1..Len(names) : names[i] = name})

\* max(set(location_names), key=location_names.count): the first maximum in
\* the iteration order of the set; `set_order` lists the names in that order
MostFrequent(names, set_order) ==
    LET present == {i \in 1..Len(set_order) : CountOf(set_order[i], names) > 0}
        best == CHOOSE i \in present :
                    /\ \A j \in present :
                          CountOf(set_order[j], names) <= CountOf(set_order[i], names)
                    /\ \A j \in present :
                          j < i => CountOf(set_order[j], names) < CountOf(set_order[i], names)
    IN  set_order[best]

\* [a['article'].get('publish_date') for a in articles if a['article'].get('publish_date')]
RECURSIVE DatesOf(_)
DatesOf(members) ==
    IF Len(members) = 0 THEN << >>
    ELSE IF Head(members).article.publish_date # 0
    THEN <<Head(members).article.publish_date>> \o DatesOf(Tail(members))
    ELSE DatesOf(Tail(members))

\* The second loop of aggregate_crises (lines 114-136): one dictionary per
\* group, in the order of the groups
Cluster(group, set_order) ==
    LET articles == group.articles
        n == Len(articles)
    IN  [lat |-> Mean([a \in 1..n |-> articles[a].exact_lat], group.key[1]),
         lon |-> Mean([a \in 1..n |-> articles[a].exact_lon], group.key[2]),
         category |-> group.key[3],
         location_name |-> MostFrequent([a \in 1..n |-> articles[a].location_name],
                                        set_order),
         article_count |-> n,
         articles |-> articles,
         dates |-> DatesOf(articles)]

aggregate_crises(data, set_order) ==
    LET crisis_groups == GroupFrom(data, 1, << >>)
    IN  [g \in 1..Len(crisis_groups) |-> Cluster(crisis_groups[g], set_order)]

\* The entry process_article_locations builds for a candidate text and what
\* geocode_location returned for it (geo_extractor.py lines 305-318)
EnhancedLocation(text, geocoded) ==
    IF geocoded # None
    THEN [text |-> text, query |-> geocoded.query, found_name |-> geocoded.found_name,
          latitude |-> geocoded.latitude, longitude |-> geocoded.longitude,
          raw_data |-> geocoded.raw_data, geocoded |-> TRUE]
    ELSE [text |-> text, geocoded |-> FALSE, latitude |-> None, longitude |-> None]

\* The locations of the articles handed to aggregate_crises: places a
\* provider found at (1.0, 1.0), (1.4, 0.6) and (0.8, 1.2), another place
\* called Beta at (0.25, -0.75), the override entry of Gaza, and a candidate
\* that was not geocoded
AtAlpha == EnhancedLocation("Alpha", PrimaryResult("Alpha",
                [address |-> "Alpha", latitude |-> 10000, longitude |-> 10000]))

AtBeta == EnhancedLocation("Beta", PrimaryResult("Beta",
                [address |-> "Beta", latitude |-> 14000, longitude |-> 6000]))

AtGamma == EnhancedLocation("Gamma", PrimaryResult("Gamma",
                [address |-> "Gamma", latitude |-> 8000, longitude |-> 12000]))

AtOtherBeta == EnhancedLocation("Beta", PrimaryResult("Beta",
                [address |-> "Beta", latitude |-> 2500, longitude |-> -7500]))

AtGaza == EnhancedLocation("Gaza", OverrideResult("Gaza", known_crisis_zones["gaza"]))

Nowhere == EnhancedLocation("Atlantis", None)

\* The display names of the locations, and the orders in which a set of
\* them can be iterated
LocationNames == {"Alpha", "Beta", "Gamma", "Gaza Strip, Palestine"}

SetOrders ==
    {o \in [1..Cardinality(LocationNames) -> LocationNames] :
        \A i, j \in DOMAIN o : i # j => o[i] # o[j]}

\* The classified, location-enhanced articles a crisis_data list is made of;
\* publish_date 0 stands for an article without a publication date
CrisisItem(title, locations, publish_date, category) ==
    [article |-> [title |-> title, locations |-> locations,
                  publish_date |-> publish_date],
     predicted_category |-> category]

CrisisItems ==
    {CrisisItem("a", <<AtAlpha>>, 3, "Political Conflicts"),
     CrisisItem("b", <<AtBeta>>, 1, "Political Conflicts"),
     CrisisItem("c", <<AtGamma>>, 2, "Political Conflicts"),
     CrisisItem("d", <<Nowhere, AtGaza>>, 2, "Political Conflicts"),
     CrisisItem("e", <<AtGaza, AtAlpha>>, 1, "Humanitarian Crises"),
     CrisisItem("f", <<Nowhere>>, 3, "Political Conflicts"),
     CrisisItem("g", <<AtOtherBeta>>, 0, "Humanitarian Crises"),
     CrisisItem("h", <<AtGaza>>, 1, "Political Conflicts")}

MaxItems == 3

NotAggregated == [called |-> FALSE]

NotRun == [outcome |-> "not_run"]

----------------------------------------------------------------------------
(* Location extraction (src/argus/geo_extractor.py)                        *)

\* cleaned.startswith(prefix)
StartsWith(s, prefix) ==
    Len(s) >= Len(prefix) /\ SubSeq(s, 1, Len(prefix)) = prefix

\* if cleaned.startswith(prefix): cleaned = cleaned[len(prefix):]
RemovePrefix(s, prefix) ==
    IF StartsWith(s, prefix) THEN SubSeq(s, Len(prefix) + 1, Len(s)) ELSE s

non_geographic_terms == {
    "today", "yesterday", "tomorrow", "monday", "tuesday", "wednesday",
    "thursday", "friday", "saturday", "sunday", "january", "february",
    "march", "april", "may", "june", "july", "august", "september",
    "october", "november", "december", "am", "pm", "news", "report",
    "article", "story", "breaking", "update"}

\* re.search(r'[a-zA-Z]', cleaned)
HasLetter(s) ==
    \E i \in 1..Len(s) :
        \E k \in 1..Len(LowerChars) : LowerChar(CharAt(s, i)) = CharAt(LowerChars, k)

\* A text that _clean_location_text returns (None stands for its None)
Cleaned(text) == [ok |-> TRUE, text |-> text]

_clean_location_text(location_text) ==
    IF location_text = "" THEN None
    ELSE LET collapsed == CollapseWhitespace(Strip(location_text))
             cleaned == RemovePrefix(RemovePrefix(collapsed, "the "), "The ")
         IN  IF Lower(cleaned) \in non_geographic_terms THEN None
             ELSE IF Len(cleaned) < 2 \/ ~HasLetter(cleaned) THEN None
             ELSE Cleaned(cleaned)

MAX_LOCATIONS_PER_ARTICLE == 10

\* The loop of extract_locations over doc.ents, the entities spaCy labelled
\* GPE or LOC, in the order of their appearance (lines 98-120)
RECURSIVE ExtractFrom(_, _, _)
ExtractFrom(ents, locations, seen_locations) ==
    IF Len(ents) = 0 THEN locations
    ELSE LET location_text == Strip(Head(ents))
             cleaned_location == _clean_location_text(location_text)
         IN  IF /\ cleaned_location # None
                /\ Lower(cleaned_location.text) \notin seen_locations
                /\ Len(cleaned_location.text) > 1
             THEN ExtractFrom(Tail(ents),
                              Append(locations, [text |-> cleaned_location.text,
                                                 original_text |-> location_text]),
                              seen_locations \cup {Lower(cleaned_location.text)})
             ELSE ExtractFrom(Tail(ents), locations, seen_locations)

\* extract_locations(text); ner is what self.nlp(text) does: it gives the
\* entities ner.ents, or raises (ner.ok false) and the function returns []
extract_locations(text, ner) ==
    IF text = "" \/ ~ner.ok THEN << >>
    ELSE LET locations == ExtractFrom(ner.ents, << >>, {})
         IN  IF Len(locations) > MAX_LOCATIONS_PER_ARTICLE
             THEN SubSeq(locations, 1, MAX_LOCATIONS_PER_ARTICLE)
             ELSE locations

\* The loop of process_article_locations over the extracted locations
\* (lines 302-320), on the cache `cache`; answer[text] is what the primary
\* provider would return for the text. The Mapbox request is answered with
\* no features.
RECURSIVE GeocodeAll(_, _, _, _, _)
GeocodeAll(cache, token, extracted_locations, answer, geocoded_locations) ==
    LET \* r is what geocode_location gave for location_info
        Geocoded(location_info, r) ==
            IF r.raised
            THEN [cache |-> r.cache, locations |-> << >>, failed |-> TRUE]
            ELSE GeocodeAll(r.cache, token, Tail(extracted_locations), answer,
                            Append(geocoded_locations,
                                   EnhancedLocation(location_info.text, r.result)))
        Each(location_info) ==
            Geocoded(location_info,
                     Resolve(cache, token, location_info.text,
                             answer[location_info.text], [kind |-> "no_features"]))
    IN  IF Len(extracted_locations) = 0
        THEN [cache |-> cache, locations |-> geocoded_locations, failed |-> FALSE]
        ELSE Each(Head(extracted_locations))

\* enhanced_article = article.copy() with locations, location_count and
\* geocoded_count (lines 323-326 and 333-336)
EnhancedArticle_CountAll(art, locations) ==
    [title |-> art.title, content |-> art.content,
     source_category |-> art.source_category, priority |-> art.priority,
     ner |-> art.ner, publish_date |-> art.publish_date,
     locations |-> locations,
     location_count |-> Len(locations),
     geocoded_count |-> Len(locations)]

EnhancedArticle(art, locations) ==
    [title |-> art.title, content |-> art.content,
     source_category |-> art.source_category, priority |-> art.priority,
     ner |-> art.ner, publish_date |-> art.publish_date,
     locations |-> locations,
     location_count |-> Len(locations),
     geocoded_count |-> Cardinality({i \in 1..Len(locations) : locations[i].geocoded})]

process_article_locations(cache, token, art, answer) ==
    LET \* g is what the loop over the extracted locations gave
        Enhanced(g) ==
            [cache |-> g.cache,
             article |-> EnhancedArticle(art, IF g.failed THEN << >> ELSE g.locations)]
        full_text == Strip(art.title \o ". " \o art.content)
    IN  Enhanced(GeocodeAll(cache, token, extract_locations(full_text, art.ner),
                            answer, << >>))

\* process_batch_locations on the extractor singleton: the articles in
\* order, each on the cache the earlier ones left
RECURSIVE process_batch_locations(_, _, _, _, _)
process_batch_locations(cache, token, arts, answer, enhanced_articles) ==
    LET \* e is what process_article_locations gave for the next article
        Appended(e) ==
            process_batch_locations(e.cache, token, Tail(arts), answer,
                                    Append(enhanced_articles, e.article))
    IN  IF Len(arts) = 0 THEN [cache |-> cache, articles |-> enhanced_articles]
        ELSE Appended(process_article_locations(cache, token, Head(arts), answer))

\* geocode_location called from several threads on one extractor

\* The threads that share the extractor; each makes one call
MaxThreads == 2

Threads == 1..MaxThreads

Idle == [pc |-> "idle"]

\* The texts the threads ask for
SharedTexts == {"Gaza", "Paris", "PARIS "}

\* The call of the thread has returned `value`
Returned(location_text, value) ==
    [pc |-> "returned", text |-> location_text, value |-> value]

\* The thread waits for the answer of a provider: the only places at which
\* geocode_location blocks (lines 225 and 254)
Waiting(location_text, request) == [pc |-> request, text |-> location_text]

\* One extractor, no call yet
InitShared ==
    /\ geocoding_cache = [k \in {} |-> None]
    /\ mapbox_token \in BOOLEAN
    /\ primary_calls = [k \in Keys |-> 0]
    /\ secondary_calls = [k \in Keys |-> 0]
    /\ returned = [k \in {} |-> None]
    /\ last = NoCall
    /\ article = NoArticle
    /\ result = NoResult
    /\ crisis_data = << >>
    /\ aggregated_crises = NotAggregated
    /\ fetched_articles = << >>
    /\ run = NotRun
    /\ callers = [t \in Threads |-> Idle]

\* Thread t calls geocode_location(location_text) and runs to the request to
\* the primary provider, or returns before it (lines 183-225)
BeginGeocode(t, location_text) ==
    LET cache_key == CacheKey(location_text)
        location_lower == LocationLower(location_text)
        zone_result == OverrideResult(location_text, known_crisis_zones[location_lower])
    IN  /\ callers[t] = Idle
        /\ IF CacheHit(geocoding_cache, cache_key)
           THEN /\ callers' = [callers EXCEPT
                                ![t] = Returned(location_text, geocoding_cache[cache_key])]
                /\ UNCHANGED <<geocoding_cache, primary_calls>>
           ELSE IF IsKnownCrisisZone(location_lower)
           THEN /\ callers' = [callers EXCEPT ![t] = Returned(location_text, zone_result)]
                /\ geocoding_cache' = CacheOverride(geocoding_cache, cache_key, zone_result)
                /\ UNCHANGED primary_calls
           ELSE /\ callers' = [callers EXCEPT
                                ![t] = Waiting(location_text, "primary_request")]
                /\ primary_calls' = [primary_calls EXCEPT ![cache_key] = @ + 1]
                /\ UNCHANGED geocoding_cache
        /\ UNCHANGED <<mapbox_token, secondary_calls, returned, last,
                       clsVars, aggVars, runVars>>

\* The primary provider answers thread t with p, and the thread runs to the
\* Mapbox request or to its return (lines 225-254)
PrimaryAnswers(t, p) ==
    LET location_text == callers[t].text
        cache_key == CacheKey(location_text)
    IN  /\ callers[t].pc = "primary_request"
        /\ IF IsError(p) /\ ~PrimaryHandled(p)
           THEN /\ callers' = [callers EXCEPT ![t] = Returned(location_text, None)]
                /\ UNCHANGED <<geocoding_cache, secondary_calls>>
           ELSE IF PrimaryMatched(p)
           THEN /\ callers' = [callers EXCEPT
                        ![t] = Returned(location_text, PrimaryResult(location_text, p.place))]
                /\ geocoding_cache' = Put(geocoding_cache, cache_key,
                                          PrimaryResult(location_text, p.place))
                /\ UNCHANGED secondary_calls
           ELSE IF mapbox_token
           THEN /\ callers' = [callers EXCEPT
                                ![t] = Waiting(location_text, "secondary_request")]
                /\ secondary_calls' = [secondary_calls EXCEPT ![cache_key] = @ + 1]
                /\ UNCHANGED geocoding_cache
           ELSE /\ callers' = [callers EXCEPT ![t] = Returned(location_text, None)]
                /\ geocoding_cache' = CacheNegative(geocoding_cache, cache_key)
                /\ UNCHANGED secondary_calls
        /\ UNCHANGED <<mapbox_token, primary_calls, returned, last,
                       clsVars, aggVars, runVars>>

\* Mapbox answers thread t with s, and the thread runs to its return
\* (lines 254-275)
SecondaryAnswers(t, s) ==
    LET location_text == callers[t].text
        cache_key == CacheKey(location_text)
    IN  /\ callers[t].pc = "secondary_request"
        /\ IF s.kind = "match"
           THEN /\ callers' = [callers EXCEPT
                        ![t] = Returned(location_text, SecondaryResult(location_text, s.place))]
                /\ geocoding_cache' = Put(geocoding_cache, cache_key,
                                          SecondaryResult(location_text, s.place))
           ELSE IF IsError(s) /\ ~SecondaryHandled(s)
           THEN /\ callers' = [callers EXCEPT ![t] = Returned(location_text, None)]
                /\ UNCHANGED geocoding_cache
           ELSE /\ callers' = [callers EXCEPT ![t] = Returned(location_text, None)]
                /\ geocoding_cache' = CacheNegative(geocoding_cache, cache_key)
        /\ UNCHANGED <<mapbox_token, primary_calls, secondary_calls, returned, last,
                       clsVars, aggVars, runVars>>

NextShared ==
    \E t \in Threads :
        \/ \E location_text \in SharedTexts : BeginGeocode(t, location_text)
        \/ \E p \in PrimaryOutcomes : PrimaryAnswers(t, p)
        \/ \E s \in SecondaryOutcomes : SecondaryAnswers(t, s)

SpecShared == InitShared /\ [][NextShared]_vars

\* GeographicExtractor.__init__: an empty cache; MAPBOX_TOKEN set or not
InitResolver ==
    /\ geocoding_cache = [k \in {} |-> None]
    /\ mapbox_token \in BOOLEAN
    /\ primary_calls = [k \in Keys |-> 0]
    /\ secondary_calls = [k \in Keys |-> 0]
    /\ returned = [k \in {} |-> None]
    /\ last = NoCall
    /\ article = NoArticle
    /\ result = NoResult
    /\ crisis_data = << >>
    /\ aggregated_crises = NotAggregated
    /\ fetched_articles = << >>
    /\ run = NotRun
    /\ callers = [t \in Threads |-> Idle]

NextResolver ==
    \E location_text \in Texts, p \in PrimaryOutcomes, s \in SecondaryOutcomes :
        Geocode(location_text, p, s)

Spec == InitResolver /\ [][NextResolver]_vars

\* An article arrives from the feeds; nothing has been resolved
InitClassifier ==
    /\ geocoding_cache = [k \in {} |-> None]
    /\ mapbox_token = FALSE
    /\ primary_calls = [k \in Keys |-> 0]
    /\ secondary_calls = [k \in Keys |-> 0]
    /\ returned = [k \in {} |-> None]
    /\ last = NoCall
    /\ article \in Articles
    /\ result = NoResult
    /\ crisis_data = << >>
    /\ aggregated_crises = NotAggregated
    /\ fetched_articles = << >>
    /\ run = NotRun
    /\ callers = [t \in Threads |-> Idle]

\* result = classifier.classify_article(article)
ClassifyArticle ==
    /\ result = NoResult
    /\ result' = classify_article(article)
    /\ UNCHANGED <<article, geoVars, aggVars, runVars, conVars>>

NextClassifier == ClassifyArticle

SpecClassifier == InitClassifier /\ [][NextClassifier]_vars


\* A crisis_data list is handed to a CrisisMapper
InitAggregate ==
    /\ geocoding_cache = [k \in {} |-> None]
    /\ mapbox_token = FALSE
    /\ primary_calls = [k \in Keys |-> 0]
    /\ secondary_calls = [k \in Keys |-> 0]
    /\ returned = [k \in {} |-> None]
    /\ last = NoCall
    /\ article = NoArticle
    /\ result = NoResult
    /\ crisis_data \in UNION {[1..n -> CrisisItems] : n \in 0..MaxItems}
    /\ aggregated_crises = NotAggregated
    /\ fetched_articles = << >>
    /\ run = NotRun
    /\ callers = [t \in Threads |-> Idle]

\* aggregated_crises = self.aggregate_crises(crisis_data)
AggregateCrises(set_order) ==
    /\ aggregated_crises = NotAggregated
    /\ aggregated_crises' = [called |-> TRUE,
                             value |-> aggregate_crises(crisis_data, set_order)]
    /\ UNCHANGED <<crisis_data, geoVars, clsVars, runVars, conVars>>

NextAggregate == \E set_order \in SetOrders : AggregateCrises(set_order)

SpecAggregate == InitAggregate /\ [][NextAggregate]_vars

----------------------------------------------------------------------------
(* run_crisis_monitor (src/main.py)                                        *)

\* config.CRISIS_CATEGORIES, the labels of the zero-shot classifier
CRISIS_CATEGORIES == {"Natural Disasters", "Political Conflicts", "Humanitarian Crises",
                      "Economic Crises", "Health Emergencies", "Environmental Issues"}

\* CrisisClassifier._create_classification_result (argus/classifier.py)
_create_classification_result(art, category, confidence, min_confidence) ==
    [article |-> art,
     predicted_category |-> category,
     confidence |-> confidence,
     is_crisis |-> /\ category \in CRISIS_CATEGORIES
                   /\ category # "Unknown"
                   /\ confidence >= min_confidence]

\* What self.classifier(text, self.categories) can do: rank a label first
\* with a score, or raise
ZeroShotOutcomes ==
    {[kind |-> "scores", label |-> "Political Conflicts", score |-> Ratio(9, 10)],
     [kind |-> "scores", label |-> "Political Conflicts", score |-> Ratio(4, 10)],
     [kind |-> "Exception"]}

\* CrisisClassifier.classify_article(article, confidence_threshold)
CrisisClassifier_classify_article(art, outcome, confidence_threshold) ==
    IF outcome.kind = "Exception"
    THEN _create_classification_result(art, "Error", 0, Ratio(3, 10))
    ELSE IF outcome.score < confidence_threshold
    THEN _create_classification_result(art, "Unknown", 0, confidence_threshold)
    ELSE _create_classification_result(art, outcome.label, outcome.score,
                                       confidence_threshold)

\* argus.classifier.classify_crisis_articles(articles, confidence_threshold),
\* the function main.py imports; run_crisis_monitor passes its default
\* threshold 0.5
classify_crisis_articles(arts, outcomes) ==
    [i \in 1..Len(arts) |->
        CrisisClassifier_classify_article(arts[i], outcomes[i], Ratio(1, 2))]

\* argus.simple_classifier.classify_crisis_articles(articles), the
\* rule-based classifier over a batch
simple_classify_crisis_articles(arts) ==
    [i \in 1..Len(arts) |-> classify_article(arts[i])]

\* enhanced_crisis_result['article'] = enhanced_article_list[i]
\* (main.py lines 126-130)
Recombine_Reversed(crisis_articles, enhanced_article_list) ==
    [i \in 1..Len(crisis_articles) |->
        [crisis_articles[i] EXCEPT
            !.article = enhanced_article_list[Len(crisis_articles) + 1 - i]]]

Recombine(crisis_articles, enhanced_article_list) ==
    [i \in 1..Len(crisis_articles) |->
        [crisis_articles[i] EXCEPT !.article = enhanced_article_list[i]]]

\* if not mappable_articles and enhanced_articles:
\*     mappable_articles = enhanced_articles      (main.py lines 139-141)
AfterFallback(mappable_articles, enhanced_articles) ==
    IF Len(mappable_articles) = 0 /\ Len(enhanced_articles) > 0
    THEN enhanced_articles
    ELSE mappable_articles

\* Steps 3 and 4 of run_crisis_monitor (lines 97-181), from the
\* classification results on: what the run returns or whether it raises,
\* the lists it computes on the way, the clusters the mapper makes of the
\* list it is handed, and the extractor's cache afterwards. save_ok says
\* whether writing the map file succeeds.
LocateAndMap(classification_results, cache, token, answer, save_ok, set_order) ==
    LET \* Step 4 (lines 146-156)
        CreateMap(enhanced_articles, mappable_articles, cache_after) ==
            IF Len(mappable_articles) = 0
            THEN [outcome |-> "None", classification_results |-> classification_results,
                  enhanced_articles |-> enhanced_articles,
                  mappable_articles |-> mappable_articles,
                  crisis_data |-> << >>, aggregated |-> NotAggregated,
                  cache |-> cache_after]
            ELSE [outcome |-> IF save_ok THEN "map_file" ELSE "raised",
                  classification_results |-> classification_results,
                  enhanced_articles |-> enhanced_articles,
                  mappable_articles |-> mappable_articles,
                  crisis_data |-> mappable_articles,
                  aggregated |-> [called |-> TRUE,
                                  value |-> aggregate_crises(mappable_articles, set_order)],
                  cache |-> cache_after]
        \* the articles with geocoded locations, or all of them (lines 133-141)
        Mappable(enhanced_articles, cache_after) ==
            CreateMap(enhanced_articles,
                      AfterFallback(SelectSeq(enhanced_articles,
                                              LAMBDA r : r.article.geocoded_count > 0),
                                    enhanced_articles),
                      cache_after)
        \* classification and location data combined (lines 126-130)
        Combined(crisis_articles, batch) ==
            Mappable(Recombine(crisis_articles, batch.articles), batch.cache)
        \* Step 3 (lines 113-114)
        Located(crisis_articles) ==
            Combined(crisis_articles,
                     process_batch_locations(
                        cache, token,
                        [i \in 1..Len(crisis_articles) |-> crisis_articles[i].article],
                        answer, << >>))
    IN  \* the crisis articles (lines 104-107)
        Located(SelectSeq(classification_results, LAMBDA r : r.is_crisis))

\* The articles get_crisis_articles can return: title, content, the feed's
\* category and priority, a publication date, and what spaCy finds in the
\* text (the entity texts, or ok false when the model raises)
NewsArticle(title, content, source_category, ner, publish_date) ==
    [title |-> title, content |-> content, source_category |-> source_category,
     priority |-> "medium", ner |-> ner, publish_date |-> publish_date]

Entities(ents) == [ok |-> TRUE, ents |-> ents]

NewsArticles ==
    {NewsArticle("Daily Report", "gaza", "Mixed", Entities(<<"Gaza">>), 2),
     NewsArticle("Daily Report", "gaza killed", "Mixed", Entities(<<"the  Gaza", "Paris">>), 1),
     NewsArticle("Daily Report", "yemen gaza", "Mixed", Entities(<<"Gaza">>), 3),
     NewsArticle("Daily Report", "gaza", "Humanitarian Crises", Entities(<<"Gaza">>), 1),
     NewsArticle("Daily Report", "concert", "Mixed", Entities(<<"Paris">>), 1),
     NewsArticle("Torture Report", "torture genocide war crimes", "Mixed",
                 Entities(<<"Monday", "Paris">>), 2),
     NewsArticle("Torture Report", "gaza", "Mixed", [ok |-> FALSE], 3)}

MaxArticles == 2

\* The candidate texts of the articles and what the primary provider can
\* answer for them: it finds Paris or not, and has no match for 'Gaza'
NewsCandidates == {"Gaza", "Paris"}

ParisAnswers ==
    {[kind |-> "match",
      place |-> [address |-> "Paris, Ile-de-France, France",
                 latitude |-> 488566, longitude |-> 23522]],
     [kind |-> "no_match"]}

ProviderAnswers ==
    {[text \in NewsCandidates |->
        IF text = "Paris" THEN paris ELSE [kind |-> "no_match"]] : paris \in ParisAnswers}

NewsLocationNames == {"Gaza Strip, Palestine", "Paris, Ile-de-France, France"}

OrdersOf(names) ==
    {o \in [1..Cardinality(names) -> names] :
        \A i, j \in DOMAIN o : i # j => o[i] # o[j]}

\* run_crisis_monitor on the fetched articles with the classifier main.py
\* imports; outcomes[i] is what the zero-shot model does on article i
run_crisis_monitor(arts, outcomes, cache, token, answer, save_ok, set_order) ==
    IF Len(arts) = 0
    THEN [outcome |-> "None", classification_results |-> << >>,
          enhanced_articles |-> << >>, mappable_articles |-> << >>,
          crisis_data |-> << >>, aggregated |-> NotAggregated, cache |-> cache]
    ELSE LocateAndMap(classify_crisis_articles(arts, outcomes),
                      cache, token, answer, save_ok, set_order)

\* Articles have been fetched; the extractor singleton is new
InitMonitor ==
    /\ geocoding_cache = [k \in {} |-> None]
    /\ mapbox_token = FALSE
    /\ primary_calls = [k \in Keys |-> 0]
    /\ secondary_calls = [k \in Keys |-> 0]
    /\ returned = [k \in {} |-> None]
    /\ last = NoCall
    /\ article = NoArticle
    /\ result = NoResult
    /\ crisis_data = << >>
    /\ aggregated_crises = NotAggregated
    /\ fetched_articles \in UNION {[1..n -> NewsArticles] : n \in 0..MaxArticles}
    /\ run = NotRun
    /\ callers = [t \in Threads |-> Idle]

\* The effect of a run on the state
Ran(classifier, r) ==
    /\ run' = [outcome |-> r.outcome, classifier |-> classifier,
               classification_results |-> r.classification_results,
               enhanced_articles |-> r.enhanced_articles,
               mappable_articles |-> r.mappable_articles]
    /\ crisis_data' = r.crisis_data
    /\ aggregated_crises' = r.aggregated
    /\ geocoding_cache' = r.cache
    /\ UNCHANGED <<fetched_articles, mapbox_token, primary_calls, secondary_calls,
                   returned, last, clsVars, conVars>>

\* map_file = run_crisis_monitor(...)
RunCrisisMonitor(outcomes, answer, save_ok, set_order) ==
    /\ run = NotRun
    /\ Ran("argus.classifier",
           run_crisis_monitor(fetched_articles, outcomes, geocoding_cache,
                              mapbox_token, answer, save_ok, set_order))

\* The same stages on the results of the rule-based classifier:
\* argus.simple_classifier.classify_crisis_articles(articles), then the
\* location and mapping steps
RunRuleBased(answer, save_ok, set_order) ==
    /\ run = NotRun
    /\ Len(fetched_articles) > 0
    /\ Ran("argus.simple_classifier",
           LocateAndMap(simple_classify_crisis_articles(fetched_articles),
                        geocoding_cache, mapbox_token, answer, save_ok, set_order))

NextMonitor ==
    \E answer \in ProviderAnswers, save_ok \in BOOLEAN,
       set_order \in OrdersOf(NewsLocationNames) :
        \/ \E outcomes \in [1..Len(fetched_articles) -> ZeroShotOutcomes] :
                RunCrisisMonitor(outcomes, answer, save_ok, set_order)
        \/ RunRuleBased(answer, save_ok, set_order)

SpecMonitor == InitMonitor /\ [][NextMonitor]_vars

----------------------------------------------------------------------------
(* Properties of geocode_location                                          *)

Called == last.tier # "none"

NoProviderCalled == last.primary = NotCalled /\ last.secondary = NotCalled

\* C1: a geocode_location call whose cache key equals that of an earlier
\* completed call returns the very result the earlier call returned and
\* contacts neither provider; so each provider is called at most once per key.
C1_Idempotent ==
    /\ (Called /\ last.earlier # NoEarlier) =>
            /\ ~last.raised
            /\ last.result = last.earlier
            /\ NoProviderCalled
    /\ \A k \in Keys : primary_calls[k] <= 1 /\ secondary_calls[k] <= 1

\* A repeated resolve under another spelling of the key, while the primary
\* provider would now answer with a place the cached result does not have.
C1_Witness ==
    /\ Called /\ last.earlier # NoEarlier
    /\ last.result.found /\ last.result.query # last.text
    /\ last.offered_primary.kind = "match"
    /\ last.offered_primary.place.address # last.result.found_name
    /\ primary_calls[last.key] = 1

\* C2: a candidate whose lowered, stripped text is a key of the override
\* table gets the pinned coordinates and the canonical name of the table,
\* whatever the cache holds and whatever the providers would answer, and no
\* provider is called.
C2_OverridePrecedence ==
    (Called /\ last.key \in DOMAIN known_crisis_zones) =>
        /\ ~last.raised
        /\ last.result.found
        /\ last.result.found_name = known_crisis_zones[last.key].name
        /\ last.result.latitude = known_crisis_zones[last.key].lat
        /\ last.result.longitude = known_crisis_zones[last.key].lon
        /\ NoProviderCalled

\* An override candidate resolved when the cache already holds its key and
\* other entries, while the primary provider would answer with a match.
C2_Witness ==
    /\ Called /\ last.key = "gaza" /\ last.text = " gaza"
    /\ last.earlier # NoEarlier
    /\ "paris" \in DOMAIN geocoding_cache
    /\ last.offered_primary.kind = "match"
    /\ last.result.latitude = 313547 /\ last.result.longitude = 343088

NoMatch(outcome) == outcome.kind # "match"

\* C3: a resolve of a non-override candidate that got no match from either
\* provider (no match or a failed call) leaves None in the cache under the
\* key, and a resolve of a key whose earlier resolve returned None returns
\* None without contacting a provider.
C3_NegativeCached ==
    /\ (/\ Called /\ ~last.raised
        /\ last.primary # NotCalled /\ NoMatch(last.primary)
        /\ NoMatch(last.secondary)) =>
            /\ last.result = None
            /\ last.key \in DOMAIN geocoding_cache
            /\ geocoding_cache[last.key] = None
    /\ (Called /\ last.earlier = None) =>
            /\ last.result = None
            /\ NoProviderCalled

\* A later resolve of a key for which both providers were asked once and
\* found nothing, at a moment when the primary provider would return a match.
C3_Witness ==
    /\ Called /\ last.earlier = None /\ last.tier = "cache"
    /\ last.offered_primary.kind = "match"
    /\ last.result = None
    /\ primary_calls[last.key] = 1 /\ secondary_calls[last.key] = 1

\* C4: geocode_location never raises; when the primary provider call fails
\* the secondary provider is tried (if a token is configured), and the call
\* returns the secondary's match or None; when the secondary call fails the
\* call returns None.
C4_NeverRaises ==
    Called =>
        /\ ~last.raised
        /\ (last.primary # NotCalled /\ IsError(last.primary)) =>
                /\ mapbox_token => last.secondary # NotCalled
                /\ last.result = IF mapbox_token /\ last.secondary.kind = "match"
                                 THEN SecondaryResult(last.text, last.secondary.place)
                                 ELSE None
        /\ (last.secondary # NotCalled /\ IsError(last.secondary)) =>
                last.result = None

\* The primary call failed with an exception that is not a geopy one, and the
\* secondary provider supplied the result.
C4_Witness ==
    /\ Called /\ last.primary.kind = "Exception"
    /\ last.secondary.kind = "match"
    /\ last.result.found /\ last.result.raw_data = "mapbox"

----------------------------------------------------------------------------
(* Properties of classify_article                                          *)

Classified == result.classification_method # "none"

HRV == CHOOSE i \in 1..Len(category_keywords) :
            category_keywords[i].category = "Human Rights Violations"

\* No source hint, no exclusion trigger and no crisis-zone name; exactly
\* `hits` keywords of Human Rights Violations and none of another category.
OnlyHrvKeywords(art, hits) ==
    LET text == Lower(art.title \o " " \o art.content)
    IN  /\ art.source_category = "Mixed"
        /\ ~AnyIn(publication_markers, Lower(art.title))
        /\ ~AnyIn(exclusions, text)
        /\ ZonesIn(text) = {}
        /\ MatchCount(HRV, text) = hits
        /\ \A i \in 1..Len(category_keywords) : i # HRV => MatchCount(i, text) = 0

\* the generic-publication markers the claim names
NamedMarkers == {"edition", "newsletter", "podcast", "webinar", "op-ed"}

\* C6: an article whose title contains a generic-publication marker
\* (edition, newsletter, podcast, webinar, op-ed) is classified Unknown
\* with confidence 0 and is_crisis false, whatever its content, source
\* category and priority are.
C6_ExclusionGateFirst ==
    (Classified /\ AnyIn(NamedMarkers, Lower(article.title))) =>
        /\ result.predicted_category = "Unknown"
        /\ result.confidence = 0
        /\ result.is_crisis = FALSE

\* "Weekly News Roundup - Edition 12" from a trusted high-priority feed, with
\* a crisis zone, a category keyword and an impact term in its content.
C6_Witness ==
    /\ Classified
    /\ article.title = "Weekly News Roundup - Edition 12"
    /\ article.source_category = "Humanitarian Crises" /\ article.priority = "high"
    /\ In("gaza", article.content) /\ In("killed", article.content)
    /\ In("torture", article.content)
    /\ result.classification_method = "excluded_publication"

\* C7: with no source hint, no exclusion trigger and no crisis zone, a text
\* with exactly one Human Rights Violations keyword and no keyword of another
\* category is classified Unknown with confidence 0.
C7_SingleHrvKeyword ==
    (Classified /\ OnlyHrvKeywords(article, 1)) =>
        /\ result.predicted_category = "Unknown"
        /\ result.confidence = 0

\* The single keyword stands in the title in upper case.
C7_Witness ==
    /\ Classified /\ OnlyHrvKeywords(article, 1)
    /\ article.title = "Torture Report" /\ article.content = ""
    /\ result.classification_method = "insufficient_hrv_evidence"

\* C8: with no source hint, no exclusion trigger and no crisis zone, a text
\* with exactly two distinct Human Rights Violations keywords and no keyword
\* of another category is classified Human Rights Violations.
C8_TwoHrvKeywords ==
    (Classified /\ OnlyHrvKeywords(article, 2)) =>
        result.predicted_category = "Human Rights Violations"

\* C9: in every result is_crisis is true exactly when the category is not
\* Unknown and the confidence is at least 0.25.
C9_IsCrisisDerived ==
    Classified =>
        result.is_crisis = (/\ result.predicted_category # "Unknown"
                            /\ 4 * result.confidence >= ConfScale)

\* A keyword match just above the threshold (2 of 14 keywords: 0.2857).
C9_Witness ==
    /\ Classified
    /\ result.classification_method = "keyword_match"
    /\ result.is_crisis
    /\ 4 * result.confidence >= ConfScale
    /\ 10 * result.confidence < 3 * ConfScale

\* C10: the category of every result is one of the categories of the
\* keyword table or Unknown, whatever source_category the article carries.
C10_ClosedCategories ==
    Classified =>
        result.predicted_category \in
            {category_keywords[i].category : i \in 1..Len(category_keywords)}
            \cup {"Unknown"}


\* The article passes both exclusion gates of classify_article: no
\* publication marker in the title, and no exclusion term without a
\* crisis-impact term in the text.
PassesExclusionGate(art) ==
    /\ ~AnyIn(publication_markers, Lower(art.title))
    /\ ~(AnyIn(exclusions, TextOf(art)) /\ ~AnyIn(crisis_impact_terms, TextOf(art)))

KeywordHits(art) ==
    {i \in 1..Len(category_keywords) : MatchCount(i, TextOf(art)) > 0}

\* C16: an article that passes the exclusion gate and carries a source
\* category hint (source_category other than 'Mixed') is classified as
\* exactly the hinted category, with confidence 0.9 when the source priority
\* is 'high' and 0.7 otherwise, whatever crisis zones and category keywords
\* its text contains.
C16_SourceTrust ==
    (Classified /\ PassesExclusionGate(article) /\ article.source_category # "Mixed")
        => /\ result.predicted_category = article.source_category
           /\ result.confidence = IF article.priority = "high"
                                   THEN (9 * ConfScale) \div 10
                                   ELSE (7 * ConfScale) \div 10
           /\ result.classification_method = "source_trust"

\* A hinted high-priority article naming a crisis zone of another category
\* and hitting keywords has been classified by its hint.
C16_Witness ==
    /\ Classified
    /\ PassesExclusionGate(article)
    /\ article.source_category = "Humanitarian Crises"
    /\ article.priority = "high"
    /\ In("gaza", TextOf(article))
    /\ HRV \in KeywordHits(article)
    /\ result.predicted_category = "Humanitarian Crises"
    /\ result.confidence = (9 * ConfScale) \div 10

\* C17: an article that passes the exclusion gate and has no source category
\* hint, whose lower-cased title and content contain a name of the
\* crisis-zone table, is classified with confidence 0.85 as the category the
\* table maps a zone named in the text to, whatever keywords the text hits.
C17_CrisisZone ==
    (Classified /\ PassesExclusionGate(article) /\ article.source_category = "Mixed"
        /\ \E i \in 1..Len(crisis_zone_mapping) :
                In(crisis_zone_mapping[i].zone, TextOf(article)))
        => /\ result.confidence = (85 * ConfScale) \div 100
           /\ result.classification_method = "crisis_zone"
           /\ \E i \in 1..Len(crisis_zone_mapping) :
                /\ In(crisis_zone_mapping[i].zone, TextOf(article))
                /\ result.predicted_category = crisis_zone_mapping[i].category

\* An unhinted article names gaza and hits three keywords of Human Rights
\* Violations (enough for that category by keyword scoring), and is
\* classified by the zone.
C17_Witness ==
    /\ Classified
    /\ PassesExclusionGate(article)
    /\ article.source_category = "Mixed"
    /\ In("gaza", TextOf(article))
    /\ MatchCount(HRV, TextOf(article)) >= 3
    /\ result.predicted_category = "Political Conflicts"
    /\ result.confidence = (85 * ConfScale) \div 100


\* C18 as stated: after any sequence of resolves the cache holds no entry
\* whose key is a key of the override table.
C18_OverridesNeverCached ==
    \A k \in DOMAIN geocoding_cache : k \notin DOMAIN known_crisis_zones

\* C18, amended: a resolve answered from the override table stores its result
\* in the cache under the candidate's key, and every cache entry whose key
\* is a key of the override table holds the pinned coordinates and the
\* canonical name of the table, never a provider's result and never None.
C18_OverrideResultCached ==
    /\ (Called /\ last.tier = "override") =>
            /\ last.key \in DOMAIN geocoding_cache
            /\ geocoding_cache[last.key] = last.result
    /\ \A k \in (DOMAIN geocoding_cache) \cap (DOMAIN known_crisis_zones) :
            /\ geocoding_cache[k].found
            /\ geocoding_cache[k].found_name = known_crisis_zones[k].name
            /\ geocoding_cache[k].latitude = known_crisis_zones[k].lat
            /\ geocoding_cache[k].longitude = known_crisis_zones[k].lon
            /\ geocoding_cache[k].raw_data = "known_crisis_zone"

\* The first resolve of 'Gaza' has just been answered from the override
\* table and the cache now holds the key 'gaza' next to a provider's entry.
C18_Witness ==
    /\ Called /\ last.tier = "override" /\ last.key = "gaza"
    /\ ~last.cache_hit
    /\ "gaza" \in DOMAIN geocoding_cache
    /\ "paris" \in DOMAIN geocoding_cache

\* C19: within one resolve the primary provider is called only if neither
\* the cache nor the override table answered; the secondary provider is
\* called only after the primary provider was called in the same resolve and
\* failed or returned no match, never when the primary returned a match.
C19_TierOrder ==
    Called =>
        /\ (last.primary # NotCalled) =>
                /\ ~last.cache_hit
                /\ last.key \notin DOMAIN known_crisis_zones
        /\ (last.secondary # NotCalled) =>
                /\ last.primary # NotCalled
                /\ NoMatch(last.primary)
        /\ (last.primary # NotCalled /\ last.primary.kind = "match") =>
                /\ last.secondary = NotCalled
                /\ last.tier = "primary_provider"
        /\ (last.cache_hit \/ last.key \in DOMAIN known_crisis_zones) =>
                NoProviderCalled

\* The secondary provider answered after the primary provider had been
\* asked in the same resolve and had timed out.
C19_Witness ==
    /\ Called /\ last.tier = "secondary_provider"
    /\ last.primary.kind = "GeocoderTimedOut"
    /\ last.secondary.kind = "match"
    /\ ~last.cache_hit


\* The normalized candidate text: lowercased, whitespace-collapsed, trimmed
NormalizedText(location_text) == CollapseWhitespace(Strip(Lower(location_text)))

\* Two texts that differ only in letter case and in leading or trailing
\* whitespace
SameUpToCaseAndTrim(a, b) ==
    LET x == Strip(a)
        y == Strip(b)
    IN  /\ Len(x) = Len(y)
        /\ \A i \in 1..Len(x) : LowerChar(CharAt(x, i)) = LowerChar(CharAt(y, i))

\* C20 as stated: a candidate whose lowercased, whitespace-collapsed, trimmed
\* text is a key of the override table gets that entry without a provider
\* call, and the keys resolved so far that have the same normalized text
\* have the same result.
C20_CollapsedKey ==
    /\ (Called /\ NormalizedText(last.text) \in DOMAIN known_crisis_zones) =>
            /\ ~last.raised
            /\ last.result.found
            /\ last.result.latitude = known_crisis_zones[NormalizedText(last.text)].lat
            /\ last.result.longitude = known_crisis_zones[NormalizedText(last.text)].lon
            /\ NoProviderCalled
    /\ \A k1, k2 \in DOMAIN returned :
            NormalizedText(k1) = NormalizedText(k2) => returned[k1] = returned[k2]

\* C20, amended: the cache key and the override lookup use the candidate text
\* lowercased and trimmed. A text that differs from an override key only in
\* letter case and leading or trailing whitespace gets that entry without a
\* provider call; a text that differs only so from the text of an earlier
\* resolve gets the earlier result without a provider call; runs of internal
\* whitespace are kept, so a text that equals an override key only after
\* collapsing them is a key of its own and goes to the providers.
C20_LowerStripKey ==
    Called =>
        /\ \A z \in DOMAIN known_crisis_zones :
                SameUpToCaseAndTrim(last.text, z) =>
                    /\ ~last.raised
                    /\ last.result.found
                    /\ last.result.found_name = known_crisis_zones[z].name
                    /\ last.result.latitude = known_crisis_zones[z].lat
                    /\ last.result.longitude = known_crisis_zones[z].lon
                    /\ NoProviderCalled
        /\ (/\ last.earlier # NoEarlier /\ last.earlier.found
            /\ SameUpToCaseAndTrim(last.earlier.query, last.text)) =>
                    /\ last.result = last.earlier
                    /\ NoProviderCalled
        /\ (/\ NormalizedText(last.text) \in DOMAIN known_crisis_zones
            /\ \A z \in DOMAIN known_crisis_zones : ~SameUpToCaseAndTrim(last.text, z)
            /\ ~last.cache_hit) =>
                    /\ last.primary # NotCalled
                    /\ last.tier # "override"

\* ' gaza' is resolved after 'Gaza' and gets the result of that resolve,
\* while the primary provider would answer with a match.
C20_Witness ==
    /\ Called /\ last.text = " gaza"
    /\ last.earlier # NoEarlier /\ last.earlier.found
    /\ last.earlier.query = "Gaza"
    /\ last.result = last.earlier
    /\ last.offered_primary.kind = "match"
    /\ "west  bank" \in DOMAIN geocoding_cache


----------------------------------------------------------------------------
(* Properties of aggregate_crises                                          *)

Aggregated == aggregated_crises.called

\* The items of crisis_data whose article has a geocoded location
GeocodedItems ==
    {i \in 1..Len(crisis_data) :
        \E n \in 1..Len(crisis_data[i].article.locations) :
            crisis_data[i].article.locations[n].geocoded}

\* The first geocoded location of the i-th item
ExactLocation(i) ==
    crisis_data[i].article.locations[FirstGeocoded(crisis_data[i].article.locations)]

\* The grouping key of the i-th item, in half degrees
KeyOfItem(i) ==
    <<RoundToHalfDegree(ExactLocation(i).latitude),
      RoundToHalfDegree(ExactLocation(i).longitude),
      crisis_data[i].predicted_category>>

\* The places (cluster, position) at which the i-th item is a member
Memberships(i) ==
    {cm \in UNION {{<<c, m>> : m \in 1..Len(aggregated_crises.value[c].articles)} :
                        c \in 1..Len(aggregated_crises.value)} :
        aggregated_crises.value[cm[1]].articles[cm[2]].crisis_item = i}

ItemsOfCluster(c) ==
    {aggregated_crises.value[c].articles[m].crisis_item :
        m \in 1..Len(aggregated_crises.value[c].articles)}

\* C11: aggregate_crises partitions the items that have a geocoded location:
\* each of them is a member of exactly one cluster, exactly once; an item
\* without a geocoded location is in no cluster; the member counts add up to
\* the number of geocoded items; two items are in the same cluster exactly
\* when they have the same (rounded_lat, rounded_lon, category) key, so no
\* two clusters have the same key.
C11_Partition ==
    Aggregated =>
        LET clusters == aggregated_crises.value
        IN  /\ \A i \in GeocodedItems : Cardinality(Memberships(i)) = 1
            /\ \A i \in (1..Len(crisis_data)) \ GeocodedItems : Memberships(i) = {}
            /\ \A c \in 1..Len(clusters) :
                    /\ clusters[c].article_count = Len(clusters[c].articles)
                    /\ clusters[c].article_count = Cardinality(ItemsOfCluster(c))
                    /\ clusters[c].article_count > 0
            /\ Cardinality(UNION {ItemsOfCluster(c) : c \in 1..Len(clusters)})
                    = Cardinality(GeocodedItems)
            /\ \A c1, c2 \in 1..Len(clusters) :
                    \A i \in ItemsOfCluster(c1), j \in ItemsOfCluster(c2) :
                        (c1 = c2) <=> (KeyOfItem(i) = KeyOfItem(j))
            /\ \A c \in 1..Len(clusters) :
                    \A i \in ItemsOfCluster(c) : clusters[c].category = KeyOfItem(i)[3]

\* Three items were aggregated: one without a geocoded location, and two at
\* Gaza with different categories, which are in two clusters.
C11_Witness ==
    /\ Aggregated
    /\ Len(crisis_data) = 3
    /\ Cardinality(GeocodedItems) = 2
    /\ Len(aggregated_crises.value) = 2
    /\ \E i, j \in GeocodedItems :
            /\ KeyOfItem(i)[1] = KeyOfItem(j)[1]
            /\ KeyOfItem(i)[2] = KeyOfItem(j)[2]
            /\ KeyOfItem(i)[3] # KeyOfItem(j)[3]

RECURSIVE SumOver(_, _)
SumOver(items, f) ==
    IF items = {} THEN 0
    ELSE LET i == CHOOSE x \in items : TRUE
         IN  f[i] + SumOver(items \ {i}, f)

ExactLat(i) == ExactLocation(i).latitude

ExactLon(i) == ExactLocation(i).longitude

\* C12: the centroid of every cluster is the arithmetic mean of the exact
\* coordinates of the first geocoded location of its members: centroid times
\* member count equals the sum of those coordinates (the centroid is the
\* fraction num/den).
C12_CentroidIsMean ==
    Aggregated =>
        \A c \in 1..Len(aggregated_crises.value) :
            LET cluster == aggregated_crises.value[c]
                n == Cardinality(ItemsOfCluster(c))
            IN  /\ cluster.lat.den > 0 /\ cluster.lon.den > 0
                /\ cluster.lat.num * n = SumOver(ItemsOfCluster(c), [i \in GeocodedItems |-> ExactLat(i)]) * cluster.lat.den
                /\ cluster.lon.num * n = SumOver(ItemsOfCluster(c), [i \in GeocodedItems |-> ExactLon(i)]) * cluster.lon.den

\* A cluster of two members at (1.0, 1.0) and (0.8, 1.2): its centroid
\* (0.9, 1.1) is not the key (1.0, 1.0) they were grouped under.
C12_Witness ==
    /\ Aggregated
    /\ \E c \in 1..Len(aggregated_crises.value) :
        LET cluster == aggregated_crises.value[c]
        IN  /\ cluster.article_count = 2
            /\ cluster.lat.num = 9000 * cluster.lat.den
            /\ cluster.lon.num = 11000 * cluster.lon.den
            /\ \A i \in ItemsOfCluster(c) : KeyOfItem(i)[1] = 2 /\ KeyOfItem(i)[2] = 2

\* The three articles of the example: one category, first geocoded locations
\* at (1.0, 1.0), (1.4, 0.6) and (0.8, 1.2)
IsCentroidExample ==
    /\ Len(crisis_data) = 3
    /\ GeocodedItems = 1..3
    /\ {<<ExactLat(i), ExactLon(i)>> : i \in 1..3}
            = {<<10000, 10000>>, <<14000, 6000>>, <<8000, 12000>>}
    /\ \A i, j \in 1..3 : crisis_data[i].predicted_category = crisis_data[j].predicted_category

\* C13 as stated: the three articles all get the key (1.0, 1.0) and make one
\* cluster, whose centroid is (1.0667, 0.9333) to four decimals.
C13_OneCluster ==
    (Aggregated /\ IsCentroidExample) =>
        /\ \A i \in 1..3 : KeyOfItem(i)[1] = 2 /\ KeyOfItem(i)[2] = 2
        /\ Len(aggregated_crises.value) = 1
        /\ aggregated_crises.value[1].article_count = 3
        /\ RoundHalfEven(aggregated_crises.value[1].lat.num,
                         aggregated_crises.value[1].lat.den) = 10667
        /\ RoundHalfEven(aggregated_crises.value[1].lon.num,
                         aggregated_crises.value[1].lon.den) = 9333

\* C13, amended: under the nearest-0.5-degree rounding the three articles get
\* the keys (1.0, 1.0), (1.5, 0.5) and (1.0, 1.0); aggregate_crises makes two
\* clusters of them: the articles at (1.0, 1.0) and (0.8, 1.2) with centroid
\* (0.9, 1.1), and the article at (1.4, 0.6) alone with centroid (1.4, 0.6).
C13_TwoClusters ==
    (Aggregated /\ IsCentroidExample) =>
        /\ \A i \in 1..3 :
              KeyOfItem(i) = IF ExactLat(i) = 14000
                             THEN <<3, 1, crisis_data[i].predicted_category>>
                             ELSE <<2, 2, crisis_data[i].predicted_category>>
        /\ Len(aggregated_crises.value) = 2
        /\ \A c \in 1..2 :
              LET cluster == aggregated_crises.value[c]
              IN  IF \E i \in ItemsOfCluster(c) : ExactLat(i) = 14000
                  THEN /\ cluster.article_count = 1
                       /\ cluster.lat.num = 14000 * cluster.lat.den
                       /\ cluster.lon.num = 6000 * cluster.lon.den
                  ELSE /\ cluster.article_count = 2
                       /\ cluster.lat.num = 9000 * cluster.lat.den
                       /\ cluster.lon.num = 11000 * cluster.lon.den

\* The three articles of the example have been aggregated, the one at
\* (1.4, 0.6) coming second in the list.
C13_Witness ==
    /\ Aggregated /\ IsCentroidExample
    /\ ExactLat(2) = 14000
    /\ Len(aggregated_crises.value) = 2


----------------------------------------------------------------------------
(* Properties of run_crisis_monitor                                        *)

RunDone == run # NotRun

\* The first candidate extract_locations gives for the article ("" if none)
FirstCandidate(art) ==
    LET candidates == extract_locations(Strip(art.title \o ". " \o art.content), art.ner)
    IN  IF Len(candidates) = 0 THEN "" ELSE candidates[1].text

\* Two articles were fetched, both without source hint and without
\* exclusion trigger, both mention Gaza and have 'Gaza' as their first
\* location candidate; the run used the rule-based classifier
GazaPair ==
    /\ RunDone
    /\ run.classifier = "argus.simple_classifier"
    /\ Len(fetched_articles) = 2
    /\ \A i \in 1..2 :
        /\ fetched_articles[i].source_category = "Mixed"
        /\ PassesExclusionGate(fetched_articles[i])
        /\ In("gaza", TextOf(fetched_articles[i]))
        /\ FirstCandidate(fetched_articles[i]) = "Gaza"

\* Both articles were resolved to the override coordinates and classified
\* Political Conflicts with confidence at least 0.25, and the aggregator made
\* one cluster of the two, centred on the override coordinates
GazaOutcome ==
    /\ Len(run.enhanced_articles) = 2
    /\ \A i \in 1..2 :
        LET item == run.enhanced_articles[i]
        IN  /\ item.article.title = fetched_articles[i].title
            /\ item.article.content = fetched_articles[i].content
            /\ item.article.publish_date = fetched_articles[i].publish_date
            /\ Len(item.article.locations) >= 1
            /\ item.article.locations[1].geocoded
            /\ item.article.locations[1].latitude = 313547
            /\ item.article.locations[1].longitude = 343088
            /\ item.predicted_category = "Political Conflicts"
            /\ item.confidence >= Ratio(25, 100)
    /\ Aggregated
    /\ Len(aggregated_crises.value) = 1
    /\ LET cluster == aggregated_crises.value[1]
       IN  /\ cluster.article_count = 2
           /\ {cluster.articles[a].crisis_item : a \in 1..2} = {1, 2}
           /\ cluster.lat.num = 313547 * cluster.lat.den
           /\ cluster.lon.num = 343088 * cluster.lon.den

\* C14 as stated: for two articles without source hint and without
\* exclusion trigger that both mention Gaza and whose first location
\* candidate is 'Gaza', the resolver returns (31.3547, 34.3088) for both, the
\* classifier returns Political Conflicts with confidence at least 0.25 for
\* both, and aggregate_crises makes exactly one cluster that contains both
\* and whose centroid is exactly (31.3547, 34.3088).
C14_GazaPairAlwaysPolitical == GazaPair => GazaOutcome

\* No crisis zone that comes before 'gaza' in crisis_zone_mapping is named
\* in the article
GazaIsFirstZone(art) ==
    crisis_zone_mapping[FirstZone(TextOf(art))].zone = "gaza"

\* C14 (amended): for two such articles that in addition name no crisis
\* zone listed before 'gaza' in the classifier's crisis-zone table, the
\* resolver returns (31.3547, 34.3088) for both, the classifier returns
\* Political Conflicts with confidence at least 0.25 for both, and
\* aggregate_crises makes exactly one cluster that contains both and whose
\* centroid is exactly (31.3547, 34.3088).
C14_GazaPairFirstZone ==
    (GazaPair /\ \A i \in 1..2 : GazaIsFirstZone(fetched_articles[i])) => GazaOutcome

C14_Witness ==
    /\ GazaPair
    /\ \A i \in 1..2 : GazaIsFirstZone(fetched_articles[i])
    /\ fetched_articles[1].content # fetched_articles[2].content
    /\ run.outcome = "map_file"
    /\ Len(aggregated_crises.value) = 1

\* The items of the list handed to the mapper that can be placed on the
\* map: those with a geocoded location
PlaceableItems ==
    {i \in 1..Len(run.mappable_articles) :
        FirstGeocoded(run.mappable_articles[i].article.locations) # 0}

\* C15: a run that does not fail in writing the map ends in the 'no output'
\* outcome (returns None) exactly when no article can be placed on the map
\* after the fallback step.
C15_NoOutputIffNothingMappable ==
    (RunDone /\ run.classifier = "argus.classifier" /\ run.outcome # "raised") =>
        ((run.outcome = "None") <=> (PlaceableItems = {}))

----------------------------------------------------------------------------
(* Properties of the exclusion gate and of the later cascade stages        *)

\* The hard impact terms as the specification lists them: the terms the gate
\* tests, with 'injuries' and 'evacuation'
HardImpactTerms == crisis_impact_terms \cup {"injuries", "evacuation"}

\* C21: an article whose title has no generic-publication marker and whose
\* text contains a soft-news/entertainment marker is classified Unknown with
\* confidence 0 by the exclusion gate if and only if the text contains no
\* hard impact term, the hard impact terms including deaths, injuries, attack
\* and evacuation.
C21_ExcludedIffNoHardImpact ==
    (/\ Classified
     /\ ~AnyIn(publication_markers, Lower(article.title))
     /\ AnyIn(exclusions, TextOf(article))) =>
        ((/\ result.classification_method = "excluded_non_crisis"
          /\ result.predicted_category = "Unknown"
          /\ result.confidence = 0)
         <=> ~AnyIn(HardImpactTerms, TextOf(article)))

\* The keyword-scoring stage decides: no exclusion, no source hint and no
\* crisis zone in the text
KeywordStageDecides(art) ==
    /\ PassesExclusionGate(art)
    /\ art.source_category = "Mixed"
    /\ ZonesIn(TextOf(art)) = {}

KeywordListLength(i) == Len(category_keywords[i].keywords)

\* The categories with a hit whose hits / length is the largest
DensestCategories(art) ==
    {i \in KeywordHits(art) :
        \A j \in KeywordHits(art) :
            MatchCount(j, TextOf(art)) * KeywordListLength(i)
                <= MatchCount(i, TextOf(art)) * KeywordListLength(j)}

\* C22: when the keyword-scoring stage decides, the chosen category is one
\* that maximises hits / length of its keyword list, the confidence is
\* min(2 * hits / length, 0.95), and the category is returned only if that
\* confidence is at least 0.25; otherwise, and when no category has a hit,
\* the result is Unknown with confidence 0. Every keyword_match result has a
\* confidence within [0.25, 0.95].
C22_KeywordScoring ==
    /\ (Classified /\ KeywordStageDecides(article)) =>
        IF \E i \in DensestCategories(article) :
                8 * MatchCount(i, TextOf(article)) >= KeywordListLength(i)
        THEN \E i \in DensestCategories(article) :
                LET hits == MatchCount(i, TextOf(article))
                    length == KeywordListLength(i)
                IN  /\ result.predicted_category = category_keywords[i].category
                    /\ result.classification_method = "keyword_match"
                    /\ result.confidence * 100 * length =
                            (IF 200 * hits < 95 * length THEN 200 * hits ELSE 95 * length)
                                * ConfScale
        ELSE /\ result.predicted_category = "Unknown"
             /\ result.confidence = 0
    /\ (Classified /\ result.classification_method = "keyword_match") =>
        /\ 100 * result.confidence >= 25 * ConfScale
        /\ 100 * result.confidence <= 95 * ConfScale

\* Seven of the fourteen Economic Crises keywords in the headline: twice the
\* density is 1.0 and the confidence is the cap
C22_Witness ==
    /\ Classified /\ KeywordStageDecides(article)
    /\ article.title = EconomyHeadline
    /\ MatchCount(CHOOSE i \in 1..Len(category_keywords) :
                    category_keywords[i].category = "Economic Crises",
                  TextOf(article)) = 7
    /\ result.predicted_category = "Economic Crises"
    /\ 100 * result.confidence = 95 * ConfScale

\* The least number of hits the claim names for a category
LeastHits(category) ==
    IF category \in {"Economic Crises", "Environmental Issues"} THEN 2 ELSE 3

\* C28: in the keyword-scoring stage no category is returned on a single
\* keyword hit: a keyword_match result has at least 2 hits in the winning
\* category for Economic Crises and Environmental Issues and at least 3 for
\* Natural Disasters, Political Conflicts, Human Rights Violations,
\* Humanitarian Crises and Health Emergencies.
C28_LeastHits ==
    (Classified /\ result.classification_method = "keyword_match") =>
        \E i \in 1..Len(category_keywords) :
            /\ category_keywords[i].category = result.predicted_category
            /\ MatchCount(i, TextOf(article)) >= LeastHits(result.predicted_category)
            /\ MatchCount(i, TextOf(article)) >= 2

\* Exactly three Human Rights Violations keywords
C28_Witness ==
    /\ Classified /\ result.classification_method = "keyword_match"
    /\ result.predicted_category = "Human Rights Violations"
    /\ MatchCount(HRV, TextOf(article)) = 3

\* The zone stage decides: no exclusion, no source hint, and some zone of the
\* table in the text
ZoneStageDecides(art) ==
    /\ PassesExclusionGate(art)
    /\ art.source_category = "Mixed"
    /\ \E i \in 1..Len(crisis_zone_mapping) : In(crisis_zone_mapping[i].zone, TextOf(art))

\* The zones of the table named in the text are of different categories
NamesZonesOfSeveralCategories(art) ==
    \E i, j \in 1..Len(crisis_zone_mapping) :
        /\ In(crisis_zone_mapping[i].zone, TextOf(art))
        /\ In(crisis_zone_mapping[j].zone, TextOf(art))
        /\ crisis_zone_mapping[i].category # crisis_zone_mapping[j].category

\* C29: when the text of an article (no exclusion, no source hint) names
\* crisis zones, classify_article returns the category of the named zone
\* that comes first in the crisis-zone table, whatever the order and number
\* of the mentions in the text: a text naming 'yemen' and 'gaza' is
\* Humanitarian Crises, and 'south sudan' matches the zone 'sudan'.
C29_FirstZoneInTableOrder ==
    (Classified /\ ZoneStageDecides(article)) =>
        /\ \E i \in 1..Len(crisis_zone_mapping) :
            /\ In(crisis_zone_mapping[i].zone, TextOf(article))
            /\ \A j \in 1..(i - 1) : ~In(crisis_zone_mapping[j].zone, TextOf(article))
            /\ result.predicted_category = crisis_zone_mapping[i].category
            /\ result.classification_method = "crisis_zone"
        /\ (In("yemen", TextOf(article)) /\ In("gaza", TextOf(article))) =>
                result.predicted_category = "Humanitarian Crises"
        /\ (In("south sudan", TextOf(article)) /\ article.content = "") =>
                result.predicted_category = "Humanitarian Crises"

\* 'gaza' is mentioned twice and before 'yemen'
C29_Witness ==
    /\ Classified /\ ZoneStageDecides(article)
    /\ NamesZonesOfSeveralCategories(article)
    /\ article.content = "gaza gaza yemen"
    /\ result.predicted_category = "Humanitarian Crises"

----------------------------------------------------------------------------
(* Further properties of aggregate_crises                                  *)

LocationsOfItem(i) == crisis_data[i].article.locations

\* The position, in list order, of the first location of the i-th item that
\* is geocoded
FirstGeocodedPosition(i) ==
    CHOOSE n \in 1..Len(LocationsOfItem(i)) :
        /\ LocationsOfItem(i)[n].geocoded
        /\ \A j \in 1..(n - 1) : ~LocationsOfItem(i)[j].geocoded

UsedLocation(i) == LocationsOfItem(i)[FirstGeocodedPosition(i)]

HalfDegreeBucket(loc) ==
    <<RoundToHalfDegree(loc.latitude), RoundToHalfDegree(loc.longitude)>>

\* C23: for each article aggregate_crises uses only the first location in
\* list order that is geocoded: the article is a member of exactly one
\* cluster; the member's exact coordinates and location name are those of
\* that location; and the members of one cluster all have that location in
\* the same half-degree bucket, with the cluster's category.
C23_FirstGeocodedOnly ==
    Aggregated =>
        \A i \in GeocodedItems :
            /\ Cardinality(Memberships(i)) = 1
            /\ \A cm \in Memberships(i) :
                LET cluster == aggregated_crises.value[cm[1]]
                    member == cluster.articles[cm[2]]
                IN  /\ member.exact_lat = UsedLocation(i).latitude
                    /\ member.exact_lon = UsedLocation(i).longitude
                    /\ member.location_name = UsedLocation(i).found_name
                    /\ cluster.category = crisis_data[i].predicted_category
                    /\ \A k \in ItemsOfCluster(cm[1]) :
                            HalfDegreeBucket(UsedLocation(k))
                                = HalfDegreeBucket(UsedLocation(i))

\* An article whose first location is not geocoded and whose second is, and
\* an article with two geocoded locations in different buckets
C23_Witness ==
    /\ Aggregated
    /\ \E i \in GeocodedItems :
        /\ Len(LocationsOfItem(i)) = 2
        /\ ~LocationsOfItem(i)[1].geocoded
        /\ \E cm \in Memberships(i) :
            aggregated_crises.value[cm[1]].articles[cm[2]].exact_lat
                = LocationsOfItem(i)[2].latitude
    /\ \E i \in GeocodedItems :
        /\ Len(LocationsOfItem(i)) = 2
        /\ LocationsOfItem(i)[1].geocoded /\ LocationsOfItem(i)[2].geocoded
        /\ HalfDegreeBucket(LocationsOfItem(i)[1]) # HalfDegreeBucket(LocationsOfItem(i)[2])
        /\ Cardinality(Memberships(i)) = 1

\* The display names of the members of the c-th cluster, in member order
MemberNames(c) ==
    [m \in 1..Len(aggregated_crises.value[c].articles) |->
        aggregated_crises.value[c].articles[m].location_name]

\* The position at which a name is first seen among the members
FirstSeen(name, names) == CHOOSE m \in 1..Len(names) :
                                /\ names[m] = name
                                /\ \A k \in 1..(m - 1) : names[k] # name

\* C24: the representative location name of each cluster is the most
\* frequent display name among its members, and of several equally frequent
\* names the one seen first in member order.
C24_ModeFirstSeen ==
    Aggregated =>
        \A c \in 1..Len(aggregated_crises.value) :
            LET names == MemberNames(c)
                chosen == aggregated_crises.value[c].location_name
            IN  /\ \E m \in 1..Len(names) : names[m] = chosen
                /\ \A m \in 1..Len(names) :
                        /\ CountOf(names[m], names) <= CountOf(chosen, names)
                        /\ CountOf(names[m], names) = CountOf(chosen, names) =>
                                FirstSeen(chosen, names) <= FirstSeen(names[m], names)

\* The alphabetical position of a category name
CategoryRank(category) ==
    CASE category = "Economic Crises" -> 1
      [] category = "Environmental Issues" -> 2
      [] category = "Health Emergencies" -> 3
      [] category = "Human Rights Violations" -> 4
      [] category = "Humanitarian Crises" -> 5
      [] category = "Natural Disasters" -> 6
      [] category = "Political Conflicts" -> 7
      [] OTHER -> 8

\* C25: the list of clusters returned by aggregate_crises is sorted by
\* category: the clusters of one category are contiguous and the categories
\* appear in sorted order.
C25_SortedByCategory ==
    Aggregated =>
        \A c1, c2 \in 1..Len(aggregated_crises.value) :
            c1 < c2 => CategoryRank(aggregated_crises.value[c1].category)
                        <= CategoryRank(aggregated_crises.value[c2].category)

\* C26: in every cluster the member list is non-empty and ordered by
\* recency, most recent first: of two members the one with the later
\* publication time comes first.
C26_MostRecentFirst ==
    Aggregated =>
        \A c \in 1..Len(aggregated_crises.value) :
            LET members == aggregated_crises.value[c].articles
            IN  /\ Len(members) > 0
                /\ \A m1, m2 \in 1..Len(members) :
                        (/\ members[m1].article.publish_date # 0
                         /\ members[m2].article.publish_date # 0
                         /\ members[m1].article.publish_date
                                > members[m2].article.publish_date) => m1 < m2

----------------------------------------------------------------------------
(* Further properties of run_crisis_monitor                                *)

\* The classification results of the crisis articles, in the order of the
\* fetched articles: their articles are the input of process_batch_locations
CrisisResults == SelectSeq(run.classification_results, LAMBDA r : r.is_crisis)

\* The article `enhanced` is the article `art` extended with locations,
\* location_count and geocoded_count
IsExtensionOf(enhanced, art) ==
    /\ DOMAIN enhanced = DOMAIN art \cup {"locations", "location_count", "geocoded_count"}
    /\ \A field \in DOMAIN art : enhanced[field] = art[field]
    /\ enhanced.location_count = Len(enhanced.locations)
    /\ enhanced.geocoded_count =
            Cardinality({n \in 1..Len(enhanced.locations) : enhanced.locations[n].geocoded})

\* C30: process_batch_locations returns a list of the same length and order
\* as its input, the i-th output being the i-th input article extended with
\* locations, location_count and geocoded_count (the number of its locations
\* with geocoded true), with an empty location list when the location
\* processing of the article fails; the index-wise recombination in
\* run_crisis_monitor attaches every classification result to its own
\* article.
C30_BatchKeepsOrder ==
    (RunDone /\ Len(fetched_articles) > 0) =>
        /\ Len(run.enhanced_articles) = Len(CrisisResults)
        /\ \A i \in 1..Len(CrisisResults) :
            /\ IsExtensionOf(run.enhanced_articles[i].article, CrisisResults[i].article)
            /\ ~CrisisResults[i].article.ner.ok =>
                    run.enhanced_articles[i].article.locations = << >>
            /\ run.enhanced_articles[i].predicted_category
                    = CrisisResults[i].predicted_category
            /\ run.enhanced_articles[i].confidence = CrisisResults[i].confidence
            /\ run.enhanced_articles[i].is_crisis

\* Two different crisis articles: the entity recognition fails on the first,
\* the second has a candidate that is geocoded and one that is not
C30_Witness ==
    /\ RunDone
    /\ Len(CrisisResults) = 2
    /\ Len(run.enhanced_articles) = 2
    /\ ~run.enhanced_articles[1].article.ner.ok
    /\ run.enhanced_articles[1].article.location_count = 0
    /\ run.enhanced_articles[2].article.location_count = 2
    /\ run.enhanced_articles[2].article.geocoded_count = 1
    /\ run.enhanced_articles[1].article.content # run.enhanced_articles[2].article.content

----------------------------------------------------------------------------
(* Properties of concurrent geocode_location calls                         *)

\* The threads whose resolution of key k is in flight: the call has missed
\* the cache and has not yet returned
InFlight(k) ==
    {t \in Threads :
        /\ callers[t].pc \in {"primary_request", "secondary_request"}
        /\ CacheKey(callers[t].text) = k}

\* C27: when geocode_location calls run concurrently on one shared
\* extractor, at most one resolution per normalized key is in flight at any
\* time, so that no key gets two provider calls.
C27_SingleFlight ==
    \A k \in Keys : Cardinality(InFlight(k)) <= 1

============================================================================
